---- MODULE Spec2Model ----
(***************************************************************************)
(* wmctl: a Wayland client that lists the compositor's outputs            *)
(* (`list-outputs`) or blocks until an output is connected or             *)
(* disconnected (`watch-for-output-changes`).                             *)
(*                                                                         *)
(* The client state is WaylandClient { registry_state, output_state,      *)
(* output_changed } (src/src/wayland.rs:19-23).  The compositor is the     *)
(* environment: it appends frames to the connection, and the client       *)
(* dispatches them in order through the handlers that delegate_registry!  *)
(* and delegate_output! install.                                          *)
(***************************************************************************)
EXTENDS Integers, Sequences, FiniteSets, TLC

\* ------------------------------------------------------------------ bounds
MaxFrames == 4        \* frames sent to a list-outputs client (sync apart)
MaxWatchFrames == 3   \* frames sent to a watch-for-output-changes client
MaxName   == 2        \* registry names the compositor hands out: 1..MaxName
MaxCalls  == 2        \* list_outputs() calls made by an API caller
MaxInitial == 1       \* globals the compositor has when the client connects
MaxQueue  == 2        \* frames buffered on the connection at one time

\* The highest wl_output version the output delegate asks for (it binds
\* wl_output with the version range 1..=4).
MaxRequestedVersion == 4

\* Versions a compositor advertises for a global: one below and one above
\* the requested ceiling.
AdvertisedVersions == {3, 5}

Interfaces == {"wl_output", "wl_seat"}

\* Option<T>: None is the empty sequence, Some(x) is <<x>>.
None == << >>
Some(x) == << x >>

\* ------------------------------------------------------------ wire values
\* Argument tuples of the property events, indexed by the frame's v field.
GeometryVals ==
  << [location |-> <<10, 20>>, physical_size |-> <<340, 190>>,
      subpixel |-> "HorizontalRgb", make |-> "ACME", model |-> "Panel"] >>

ModeVals ==
  << [dimensions |-> <<1920, 1080>>, refresh_rate |-> 60000,
      current |-> TRUE, preferred |-> TRUE],
     [dimensions |-> <<1280, 720>>, refresh_rate |-> 59940,
      current |-> TRUE, preferred |-> FALSE] >>

ScaleVals == << 2 >>
NameVals == << "eDP-1" >>
DescriptionVals == << "Built-in display" >>

PropertyKinds == {"geometry", "mode", "scale", "name", "description"}
OutputKinds == PropertyKinds \cup {"done"}

ArgCount(k) ==
  CASE k = "geometry" -> Len(GeometryVals)
    [] k = "mode" -> Len(ModeVals)
    [] k = "scale" -> Len(ScaleVals)
    [] k = "name" -> Len(NameVals)
    [] k = "description" -> Len(DescriptionVals)
    [] OTHER -> 1

\* A frame: kind k, addressed object / registry name o, argument index or
\* version v, interface i (globals only).
Frame(k, o, v, i) == [k |-> k, o |-> o, v |-> v, i |-> i]

VARIABLES
  pc,              \* position of main / WaylandClient::new / the watch loop
  cmd,             \* the subcommand main was started with
  endpoint,        \* whether a compositor endpoint can be connected to
  srv_globals,     \* the compositor's current globals, in announcement order
  next_name,       \* the next registry name the compositor hands out
  sent,            \* every frame the compositor has put on the connection
  handled,         \* how many frames of sent the client has dispatched
  sync_sent,       \* the compositor has answered the roundtrip's sync
  globals,         \* GlobalList returned by registry_queue_init
  registry_state,  \* WaylandClient.registry_state
  output_state,    \* WaylandClient.output_state: sequence of OutputInner
  output_changed,  \* WaylandClient.output_changed
  synced,          \* the roundtrip's sync callback has been dispatched
  watch_from,      \* value of handled when watch_for_output_changes began
  listing          \* results of the list_outputs() calls made so far

vars == << pc, cmd, endpoint, srv_globals, next_name, sent, handled,
           sync_sent, globals, registry_state, output_state, output_changed,
           synced, watch_from, listing >>

\* Frames received and not yet dispatched, in arrival order.
queue == SubSeq(sent, handled + 1, Len(sent))

\* ------------------------------------------------------------- OutputInfo
OutputInfo_new(id) ==
  [ id |-> id, model |-> "", make |-> "", location |-> <<0, 0>>,
    physical_size |-> <<0, 0>>, subpixel |-> "Unknown", scale_factor |-> 1,
    modes |-> << >>, logical_position |-> None, logical_size |-> None,
    name |-> None, description |-> None ]

\* OutputState::setup: the OutputInner pushed for a freshly bound wl_output.
setup(name, version) ==
  [ name |-> name, version |-> version, just_created |-> TRUE,
    current_info |-> None, pending_info |-> OutputInfo_new(name),
    pending_wl |-> TRUE ]

Min(a, b) == IF a < b THEN a ELSE b

\* registry bind at the requested ceiling, whatever was advertised.
bind_version_requested(advertised) == MaxRequestedVersion

\* registry bind of a wl_output global: the version is clamped to the
\* advertised one.
bind_version(advertised) == Min(advertised, MaxRequestedVersion)

\* ------------------------------------------------ sequence helpers (Vec)
\* Iterator::position: index of the first element with the name, 0 if none.
position(seq, name) ==
  IF \E j \in 1..Len(seq) : seq[j].name = name
  THEN CHOOSE j \in 1..Len(seq) :
         /\ seq[j].name = name
         /\ \A h \in 1..(j - 1) : seq[h].name # name
  ELSE 0

\* Vec::remove: removes element i, keeping the order of the others.
remove(seq, i) ==
  [j \in 1..(Len(seq) - 1) |-> IF j < i THEN seq[j] ELSE seq[j + 1]]

\* Vec::swap_remove: removes element i by moving the last element into it.
swap_remove(seq, i) ==
  [j \in 1..(Len(seq) - 1) |-> IF j = i THEN seq[Len(seq)] ELSE seq[j]]

\* --------------------------------------------- OutputHandler callbacks
\* The client state threaded through a dispatch pass:
\*   [registry_state, output_state, output_changed, synced, error].

\* new_output leaving the flag alone.
new_output_silent(s) == s

new_output(s) == [s EXCEPT !.output_changed = TRUE]

\* update_output clearing the flag.
update_output_clearing(s) == [s EXCEPT !.output_changed = FALSE]

\* update_output raising the flag as the other two callbacks do.
update_output_flagging(s) == [s EXCEPT !.output_changed = TRUE]

update_output(s) == s

output_destroyed(s) == [s EXCEPT !.output_changed = TRUE]

\* ------------------------------------------- delegate_output!: wl_output
\* wl_output.mode: the mode with the same dimensions and refresh rate is
\* dropped, the current / preferred marks move to the new mode, and the new
\* mode is pushed at the end.
push_mode(modes, m) ==
  LET kept == SelectSeq(modes, LAMBDA x :
                \/ x.dimensions # m.dimensions
                \/ x.refresh_rate # m.refresh_rate)
      demoted == [j \in 1..Len(kept) |->
                   [kept[j] EXCEPT
                      !.preferred = IF m.preferred THEN FALSE ELSE @,
                      !.current = IF m.current THEN FALSE ELSE @]]
  IN Append(demoted, m)

\* A property event: written into the output's pending_info.
apply_property(info, f) ==
  CASE f.k = "geometry" ->
         LET g == GeometryVals[f.v]
         IN [info EXCEPT !.location = g.location,
                         !.physical_size = g.physical_size,
                         !.subpixel = g.subpixel,
                         !.make = g.make,
                         !.model = g.model]
    [] f.k = "mode" -> [info EXCEPT !.modes = push_mode(@, ModeVals[f.v])]
    [] f.k = "scale" -> [info EXCEPT !.scale_factor = ScaleVals[f.v]]
    [] f.k = "name" -> [info EXCEPT !.name = Some(NameVals[f.v])]
    [] f.k = "description" ->
         [info EXCEPT !.description = Some(DescriptionVals[f.v])]

\* wl_output.done starting the next accumulation from an empty record.
commit_done_resetting(inner) ==
  [inner EXCEPT !.current_info = Some(inner.pending_info),
                !.pending_info = OutputInfo_new(inner.name),
                !.pending_wl = FALSE,
                !.just_created = FALSE]

\* wl_output.done on OutputInner i: pending_info becomes the current info.
commit_done(inner) ==
  [inner EXCEPT !.current_info = Some(inner.pending_info),
                !.pending_wl = FALSE,
                !.just_created = FALSE]

\* The wl_output event handler applying every event to the first output.
output_event_first(s, f) ==
  LET i == IF s.output_state = << >> THEN 0 ELSE 1
  IN IF i = 0
     THEN s
     ELSE IF f.k = "done"
          THEN LET was_new == s.output_state[i].just_created
                   t == [s EXCEPT !.output_state[i] = commit_done(@)]
               IN IF was_new THEN new_output(t) ELSE update_output(t)
          ELSE [s EXCEPT !.output_state[i] =
                  [@ EXCEPT !.pending_info = apply_property(@, f),
                            !.pending_wl = TRUE]]

\* The wl_output event handler installed by delegate_output!.
output_event(s, f) ==
  LET i == position(s.output_state, f.o)
  IN IF i = 0
     THEN s    \* event for a dead wl_output: logged and dropped
     ELSE IF f.k = "done"
          THEN LET was_new == s.output_state[i].just_created
                   t == [s EXCEPT !.output_state[i] = commit_done(@)]
               IN IF was_new THEN new_output(t) ELSE update_output(t)
          ELSE [s EXCEPT !.output_state[i] =
                  [@ EXCEPT !.pending_info = apply_property(@, f),
                            !.pending_wl = TRUE]]

\* ------------------------------------ delegate_registry!: wl_registry
\* new_global binding every announced global as an output.
new_global_any(s, name, interface, version) ==
  [s EXCEPT !.output_state = Append(@, setup(name, bind_version(version)))]

\* OutputState as a registry handler: a new wl_output global is bound and
\* set up.
new_global(s, name, interface, version) ==
  IF interface = "wl_output"
  THEN [s EXCEPT !.output_state =
          Append(@, setup(name, bind_version(version)))]
  ELSE s

\* remove_global treating every removed global as an output.
remove_global_any(s, name, interface) ==
  LET i == position(s.output_state, name)
      t == output_destroyed(s)
  IN IF i = 0 THEN t ELSE [t EXCEPT !.output_state = remove(@, i)]

\* remove_global reporting the removed wl_output and keeping its entry.
remove_global_keeping(s, name, interface) ==
  IF interface = "wl_output"
  THEN LET i == position(s.output_state, name)
       IN IF i = 0
          THEN [s EXCEPT !.error = Some("Removed non-existing output")]
          ELSE output_destroyed(s)
  ELSE s

\* OutputState as a registry handler: the removed wl_output is reported
\* with output_destroyed and then dropped from the output list.
remove_global(s, name, interface) ==
  IF interface = "wl_output"
  THEN LET i == position(s.output_state, name)
       IN IF i = 0
          THEN [s EXCEPT !.error = Some("Removed non-existing output")]
          ELSE LET t == output_destroyed(s)
               IN [t EXCEPT !.output_state = remove(@, i)]
  ELSE s

\* The wl_registry event handler installed by delegate_registry!, which
\* forwards to the handlers listed in registry_handlers!.
registry_event(s, f) ==
  IF f.k = "global"
  THEN new_global(
         [s EXCEPT !.registry_state =
            Append(@, [name |-> f.o, interface |-> f.i, version |-> f.v])],
         f.o, f.i, f.v)
  ELSE LET i == position(s.registry_state, f.o)
       IN IF i = 0
          THEN s
          ELSE remove_global(
                 [s EXCEPT !.registry_state = swap_remove(@, i)],
                 f.o, s.registry_state[i].interface)

\* One frame, routed to the handler of the object it addresses.
handle(s, f) ==
  CASE f.k \in {"global", "global_remove"} -> registry_event(s, f)
    [] f.k = "sync_done" -> [s EXCEPT !.synced = TRUE]
    [] OTHER -> output_event(s, f)

\* A dispatch pass that handles the most recently received frame first.
RECURSIVE dispatch_newest_first(_, _)
dispatch_newest_first(s, q) ==
  IF q = << >> \/ s.error # None
  THEN s
  ELSE dispatch_newest_first(handle(s, q[Len(q)]), SubSeq(q, 1, Len(q) - 1))

\* EventQueue dispatch: the buffered frames are handled one after the
\* other, in arrival order; a handler that fails ends the pass.
RECURSIVE dispatch(_, _)
dispatch(s, q) ==
  IF q = << >> \/ s.error # None
  THEN s
  ELSE dispatch(handle(s, Head(q)), Tail(q))

\* The number of frames of q whose handlers a dispatch pass runs.
RECURSIVE dispatched_count(_, _)
dispatched_count(s, q) ==
  IF q = << >> \/ s.error # None
  THEN 0
  ELSE 1 + dispatched_count(handle(s, Head(q)), Tail(q))

\* The connection rejects what it reads when a frame addresses an object
\* id it has no object for.
Malformed(q) == \E j \in 1..Len(q) : q[j].k = "invalid"

\* A blocking dispatch that discards the frames it cannot decode.
blocking_dispatch_discarding(s, q) ==
  LET ok == SelectSeq(q, LAMBDA f : f.k # "invalid")
  IN [ state |-> dispatch(s, ok), dispatched |-> Len(q) ]

\* EventQueue::blocking_dispatch (and each pass of EventQueue::roundtrip):
\* the buffered frames are read from the connection, which fails with a
\* protocol error on a malformed frame before any handler runs, and then
\* dispatched.  The result is the error, if any, and the number of frames
\* dispatched.
blocking_dispatch(s, q) ==
  IF Malformed(q)
  THEN [ state |-> [s EXCEPT !.error = Some("ProtocolError")],
         dispatched |-> 0 ]
  ELSE [ state |-> dispatch(s, q), dispatched |-> dispatched_count(s, q) ]

\* OutputState::new: every wl_output global of the list is bound, in order.
RECURSIVE bind_all(_)
bind_all(gs) ==
  IF gs = << >>
  THEN << >>
  ELSE LET g == Head(gs)
       IN IF g.interface = "wl_output"
          THEN << setup(g.name, bind_version(g.version)) >> \o bind_all(Tail(gs))
          ELSE bind_all(Tail(gs))

\* The WaylandClient value constructed in WaylandClient::new before the
\* roundtrip.
client_new(gs) ==
  [ registry_state |-> gs, output_state |-> bind_all(gs),
    output_changed |-> FALSE, synced |-> FALSE, error |-> None ]

\* The client state held in the variables.
client ==
  [ registry_state |-> registry_state, output_state |-> output_state,
    output_changed |-> output_changed, synced |-> synced, error |-> None ]

\* ------------------------------------------------------- DisplayOutput
subpixel_to_string(subpixel) ==
  CASE subpixel = "None" -> "None"
    [] subpixel = "HorizontalRgb" -> "Horizontal RGB"
    [] subpixel = "HorizontalBgr" -> "Horizontal BGR"
    [] subpixel = "VerticalRgb" -> "Vertical RGB"
    [] subpixel = "VerticalBgr" -> "Vertical BGR"
    [] OTHER -> "Unknown"

\* Mode::to_string: the textual summary of a mode, as its parts in order.
Mode_to_string(m) ==
  << IF m.current THEN "(current) " ELSE "",
     IF m.preferred THEN "(preferred) " ELSE "",
     m.dimensions[1], m.dimensions[2],
     m.refresh_rate \div 1000, m.refresh_rate % 1000 >>

\* DisplayOutput::new with make and model exchanged.
DisplayOutput_new_swapped(info) ==
  [ model |-> info.make,
    name |-> info.name,
    description |-> info.description,
    make |-> info.model,
    location |-> info.location,
    subpixel |-> subpixel_to_string(info.subpixel),
    physical_size |-> info.physical_size,
    logical_position |-> info.logical_position,
    logical_size |-> info.logical_size,
    modes |-> [j \in 1..Len(info.modes) |-> Mode_to_string(info.modes[j])] ]

DisplayOutput_new(info) ==
  [ model |-> info.model,
    name |-> info.name,
    description |-> info.description,
    make |-> info.make,
    location |-> info.location,
    subpixel |-> subpixel_to_string(info.subpixel),
    physical_size |-> info.physical_size,
    logical_position |-> info.logical_position,
    logical_size |-> info.logical_size,
    modes |-> [j \in 1..Len(info.modes) |-> Mode_to_string(info.modes[j])] ]

\* OutputState::info withholding an info that describes nothing.
info_described(inner) ==
  IF inner.current_info = Some(OutputInfo_new(inner.name))
  THEN None
  ELSE inner.current_info

\* OutputState::info: the output's current info, None while the compositor
\* has not completed a description of it.
info(inner) == inner.current_info

\* list_outputs reading the record still being accumulated instead of the
\* info.
RECURSIVE list_outputs_pending(_)
list_outputs_pending(outs) ==
  IF outs = << >>
  THEN << >>
  ELSE IF info(Head(outs)) # None
       THEN << DisplayOutput_new(Head(outs).pending_info) >>
              \o list_outputs_pending(Tail(outs))
       ELSE list_outputs_pending(Tail(outs))

\* list_outputs giving up at the first output without an info.
RECURSIVE list_outputs_aborting(_)
list_outputs_aborting(outs) ==
  IF outs = << >>
  THEN << >>
  ELSE IF info(Head(outs)) # None
       THEN << DisplayOutput_new(info(Head(outs))[1]) >>
              \o list_outputs_aborting(Tail(outs))
       ELSE << >>

\* WaylandClient::list_outputs: the DisplayOutput of every output that has
\* an info, in the order of OutputState::outputs(); the others are skipped
\* with a warning.
RECURSIVE list_outputs(_)
list_outputs(outs) ==
  IF outs = << >>
  THEN << >>
  ELSE LET i == info(Head(outs))
       IN IF i # None
          THEN << DisplayOutput_new(i[1]) >> \o list_outputs(Tail(outs))
          ELSE list_outputs(Tail(outs))

\* ------------------------------------------------------------ compositor
GlobalChoices ==
  {[interface |-> "wl_output", version |-> v] : v \in AdvertisedVersions}
    \cup {[interface |-> "wl_seat", version |-> 7]}

\* The globals a compositor has when the client connects: at most
\* MaxInitial of them, named 1, 2, ... in announcement order.
InitialGlobals ==
  UNION { { [j \in 1..n |->
               [name |-> j, interface |-> c[j].interface,
                version |-> c[j].version]] :
            c \in [1..n -> GlobalChoices] } : n \in 0..MaxInitial }

\* The client is blocked reading the connection: what the compositor sends
\* is buffered until the blocked dispatch pass picks it up.
Connected == pc \in {"roundtrip", "watch_dispatch"}

FramesLeft ==
  /\ Len(SelectSeq(sent, LAMBDA f : f.k # "sync_done")) <
       (IF cmd = "list-outputs" THEN MaxFrames ELSE MaxWatchFrames)
  /\ Len(queue) < MaxQueue

\* The compositor announces a new global under a fresh registry name.
SrvAnnounce ==
  /\ Connected /\ FramesLeft
  /\ next_name <= MaxName
  /\ \E c \in GlobalChoices :
       /\ srv_globals' = Append(srv_globals,
            [name |-> next_name, interface |-> c.interface,
             version |-> c.version])
       /\ sent' = Append(sent,
            Frame("global", next_name, c.version, c.interface))
  /\ next_name' = next_name + 1
  /\ UNCHANGED << pc, cmd, endpoint, handled, sync_sent, globals,
                  registry_state, output_state, output_changed, synced,
                  watch_from, listing >>

\* The compositor retracts one of its globals.
SrvRemove ==
  /\ Connected /\ FramesLeft
  /\ \E j \in 1..Len(srv_globals) :
       /\ srv_globals' = remove(srv_globals, j)
       /\ sent' = Append(sent,
            Frame("global_remove", srv_globals[j].name, 0, ""))
  /\ UNCHANGED << pc, cmd, endpoint, next_name, handled, sync_sent, globals,
                  registry_state, output_state, output_changed, synced,
                  watch_from, listing >>

\* The compositor sends a property or done event on one of its outputs.
SrvOutputEvent ==
  /\ Connected /\ FramesLeft
  /\ \E j \in 1..Len(srv_globals), k \in OutputKinds :
       /\ srv_globals[j].interface = "wl_output"
       /\ \E v \in 1..ArgCount(k) :
            sent' = Append(sent, Frame(k, srv_globals[j].name, v, ""))
  /\ UNCHANGED << pc, cmd, endpoint, srv_globals, next_name, handled,
                  sync_sent, globals, registry_state, output_state,
                  output_changed, synced, watch_from, listing >>

\* The compositor answers the sync request of the roundtrip.
SrvSyncDone ==
  /\ pc = "roundtrip" /\ ~sync_sent
  /\ sync_sent' = TRUE
  /\ sent' = Append(sent, Frame("sync_done", 0, 1, ""))
  /\ UNCHANGED << pc, cmd, endpoint, srv_globals, next_name, handled,
                  globals, registry_state, output_state, output_changed,
                  synced, watch_from, listing >>

\* ---------------------------------------------------------------- client
\* The client fields after a dispatch pass over the buffered frames.
Dispatched(r) ==
  /\ registry_state' = r.state.registry_state
  /\ output_state' = r.state.output_state
  /\ output_changed' = r.state.output_changed
  /\ synced' = r.state.synced
  /\ handled' = handled + r.dispatched

\* WaylandClient::new falling back to an empty client when the connection
\* fails, so that main goes on with it.
New_defaulting ==
  /\ pc = "main"
  /\ IF endpoint
     THEN /\ globals' = srv_globals
          /\ registry_state' = client_new(srv_globals).registry_state
          /\ output_state' = client_new(srv_globals).output_state
          /\ output_changed' = client_new(srv_globals).output_changed
          /\ pc' = "roundtrip"
     ELSE /\ pc' = "ready"
          /\ UNCHANGED << globals, registry_state, output_state,
                          output_changed >>
  /\ UNCHANGED << cmd, endpoint, srv_globals, next_name, sent, handled,
                  sync_sent, synced, watch_from, listing >>

\* WaylandClient::new up to the roundtrip: connect, registry_queue_init,
\* RegistryState::new, OutputState::new, the WaylandClient value.  main
\* unwraps the result, so a failed connection ends the process.
New ==
  /\ pc = "main"
  /\ IF endpoint
     THEN /\ globals' = srv_globals
          /\ registry_state' = client_new(srv_globals).registry_state
          /\ output_state' = client_new(srv_globals).output_state
          /\ output_changed' = client_new(srv_globals).output_changed
          /\ pc' = "roundtrip"
     ELSE /\ pc' = "panicked"
          /\ UNCHANGED << globals, registry_state, output_state,
                          output_changed >>
  /\ UNCHANGED << cmd, endpoint, srv_globals, next_name, sent, handled,
                  sync_sent, synced, watch_from, listing >>

\* A roundtrip that returns after its first dispatch pass, whether or not
\* the sync callback was part of it.
Roundtrip_once ==
  /\ pc = "roundtrip"
  /\ queue # << >>
  /\ LET r == blocking_dispatch(client, queue)
     IN /\ Dispatched(r)
        /\ pc' = IF r.state.error # None THEN "panicked" ELSE "ready"
  /\ UNCHANGED << cmd, endpoint, srv_globals, next_name, sent, sync_sent,
                  globals, watch_from, listing >>

\* event_queue.roundtrip: blocking dispatch passes until the sync callback
\* has been dispatched; then WaylandClient::new returns.
Roundtrip ==
  /\ pc = "roundtrip"
  /\ queue # << >>
  /\ LET r == blocking_dispatch(client, queue)
     IN /\ Dispatched(r)
        /\ pc' = IF r.state.error # None THEN "panicked"
                 ELSE IF r.state.synced THEN "ready" ELSE "roundtrip"
  /\ UNCHANGED << cmd, endpoint, srv_globals, next_name, sent, sync_sent,
                  globals, watch_from, listing >>

\* list_outputs() consuming the outputs it lists.
ListOutputs_draining ==
  /\ pc = "ready" /\ cmd = "list-outputs"
  /\ listing' = Append(listing, list_outputs(output_state))
  /\ output_state' = << >>
  /\ pc' = "exit"
  /\ UNCHANGED << cmd, endpoint, srv_globals, next_name, sent, handled,
                  sync_sent, globals, registry_state, output_changed,
                  synced, watch_from >>

\* list_outputs() waiting for the compositor's next frames and dispatching
\* them before it reads the outputs.
ListOutputs_dispatching ==
  /\ pc = "ready" /\ cmd = "list-outputs"
  /\ queue # << >>
  /\ LET r == blocking_dispatch(client, queue)
     IN /\ Dispatched(r)
        /\ listing' = Append(listing, list_outputs(r.state.output_state))
  /\ pc' = "exit"
  /\ UNCHANGED << cmd, endpoint, srv_globals, next_name, sent, sync_sent,
                  globals, watch_from >>

\* main, Command::ListOutputs: list_outputs() on the fresh client, then the
\* process ends.
ListOutputs ==
  /\ pc = "ready" /\ cmd = "list-outputs"
  /\ listing' = Append(listing, list_outputs(output_state))
  /\ pc' = "exit"
  /\ UNCHANGED << cmd, endpoint, srv_globals, next_name, sent, handled,
                  sync_sent, globals, registry_state, output_state,
                  output_changed, synced, watch_from >>

\* watch_for_output_changes entered without resetting the flag.
WatchReset_keeping ==
  /\ pc = "ready" /\ cmd = "watch-for-output-changes"
  /\ watch_from' = handled
  /\ pc' = "watch_loop"
  /\ UNCHANGED << cmd, endpoint, srv_globals, next_name, sent, handled,
                  sync_sent, globals, registry_state, output_state,
                  output_changed, synced, listing >>

\* watch_for_output_changes, entry: the flag is reset.
WatchReset ==
  /\ pc = "ready" /\ cmd = "watch-for-output-changes"
  /\ output_changed' = FALSE
  /\ watch_from' = handled
  /\ pc' = "watch_loop"
  /\ UNCHANGED << cmd, endpoint, srv_globals, next_name, sent, handled,
                  sync_sent, globals, registry_state, output_state, synced,
                  listing >>

\* watch_for_output_changes, head of the loop: break when the flag is set.
WatchCheck ==
  /\ pc = "watch_loop"
  /\ pc' = IF output_changed THEN "exit" ELSE "watch_dispatch"
  /\ UNCHANGED << cmd, endpoint, srv_globals, next_name, sent, handled,
                  sync_sent, globals, registry_state, output_state,
                  output_changed, synced, watch_from, listing >>

\* watch_for_output_changes, event_queue.blocking_dispatch(self).unwrap():
\* sleeps until a frame is buffered, then handles every buffered frame.
WatchDispatch ==
  /\ pc = "watch_dispatch"
  /\ queue # << >>
  /\ LET r == blocking_dispatch(client, queue)
     IN /\ Dispatched(r)
        /\ pc' = IF r.state.error # None THEN "panicked" ELSE "watch_loop"
  /\ UNCHANGED << cmd, endpoint, srv_globals, next_name, sent, sync_sent,
                  globals, watch_from, listing >>

Commands == {"list-outputs", "watch-for-output-changes"}

Init ==
  /\ pc = "main"
  /\ cmd \in Commands
  /\ endpoint \in BOOLEAN
  /\ srv_globals \in InitialGlobals
  /\ next_name = Len(srv_globals) + 1
  /\ sent = << >>
  /\ handled = 0
  /\ sync_sent = FALSE
  /\ globals = << >>
  /\ registry_state = << >>
  /\ output_state = << >>
  /\ output_changed = FALSE
  /\ synced = FALSE
  /\ watch_from = 0
  /\ listing = << >>

Next ==
  \/ SrvAnnounce
  \/ SrvRemove
  \/ SrvOutputEvent
  \/ SrvSyncDone
  \/ New
  \/ Roundtrip
  \/ ListOutputs
  \/ WatchReset
  \/ WatchCheck
  \/ WatchDispatch

Spec == Init /\ [][Next]_vars

\* A caller that keeps the WaylandClient calls list_outputs(&self) again.
ListAgain ==
  /\ pc = "exit" /\ cmd = "list-outputs"
  /\ Len(listing) \in 1..(MaxCalls - 1)
  /\ listing' = Append(listing, list_outputs(output_state))
  /\ UNCHANGED << pc, cmd, endpoint, srv_globals, next_name, sent, handled,
                  sync_sent, globals, registry_state, output_state,
                  output_changed, synced, watch_from >>

NextApi == Next \/ ListAgain

SpecApi == Init /\ [][NextApi]_vars

\* A compositor that does not keep to the protocol sends a frame addressed
\* to an object id the client has no object for.
SrvInvalid ==
  /\ Connected /\ FramesLeft
  /\ sent' = Append(sent, Frame("invalid", 0, 1, ""))
  /\ UNCHANGED << pc, cmd, endpoint, srv_globals, next_name, handled,
                  sync_sent, globals, registry_state, output_state,
                  output_changed, synced, watch_from, listing >>

NextProtocol == Next \/ SrvInvalid

SpecProtocol == Init /\ [][NextProtocol]_vars

\* ------------------------------------------------ what was dispatched
\* The frames the client has dispatched so far, in dispatch order.
dispatched_frames == SubSeq(sent, 1, handled)

\* The wl_output events dispatched for the output bound to registry name n.
own(n) ==
  SelectSeq(dispatched_frames, LAMBDA f : f.k \in OutputKinds /\ f.o = n)

HasDone(n) == \E j \in 1..Len(own(n)) : own(n)[j].k = "done"

\* Index of the last done among the events of n (0 if there is none).
LastDone(fs) ==
  IF \E j \in 1..Len(fs) : fs[j].k = "done"
  THEN CHOOSE j \in 1..Len(fs) :
         /\ fs[j].k = "done"
         /\ \A h \in (j + 1)..Len(fs) : fs[h].k # "done"
  ELSE 0

\* The properties carried by a sequence of property events, written one
\* after the other into a start record.
RECURSIVE written(_, _)
written(start, fs) ==
  IF fs = << >>
  THEN start
  ELSE written(IF Head(fs).k = "done" THEN start
               ELSE apply_property(start, Head(fs)), Tail(fs))

\* The description the compositor had completed for n with its last done:
\* every property it sent for n before that done.
committed(n) ==
  written(OutputInfo_new(n), SubSeq(own(n), 1, LastDone(own(n))))

\* The accumulation of an output is Pending until its first done and again
\* from every property event after a done until the next done.
Pending(inner) == inner.pending_wl
Complete(inner) == ~inner.pending_wl

\* list_outputs() has been called and has returned.
Listed == pc = "exit" /\ cmd = "list-outputs" /\ Len(listing) > 0

\* r is a subsequence of s.
RECURSIVE IsSubSeq(_, _)
IsSubSeq(r, s) ==
  IF r = << >> THEN TRUE
  ELSE IF s = << >> THEN FALSE
  ELSE IF Head(r) = Head(s) THEN IsSubSeq(Tail(r), Tail(s))
  ELSE IsSubSeq(r, Tail(s))

\* The records of the outputs that satisfy P, in the order of output_state.
RecordsOf(P(_)) ==
  LET sel == SelectSeq(output_state, P)
  IN [j \in 1..Len(sel) |-> DisplayOutput_new(sel[j].pending_info)]

Watching ==
  cmd = "watch-for-output-changes" /\ pc \in {"watch_loop", "watch_dispatch"}
WatchReturned == cmd = "watch-for-output-changes" /\ pc = "exit"

\* Registry name n belongs to a wl_output global announced before frame k.
IsOutputName(n, k) ==
  \/ \E j \in 1..Len(globals) :
       globals[j].name = n /\ globals[j].interface = "wl_output"
  \/ \E h \in 1..(k - 1) :
       sent[h].k = "global" /\ sent[h].o = n /\ sent[h].i = "wl_output"

\* Frame k removes an output: a global_remove of a wl_output global.
Removal(k) == sent[k].k = "global_remove" /\ IsOutputName(sent[k].o, k)

\* Frame k adds an output: the done that completes an output for the first
\* time.
Addition(k) ==
  /\ sent[k].k = "done"
  /\ \A h \in 1..(k - 1) : ~(sent[h].k = "done" /\ sent[h].o = sent[k].o)

Structural(k) == Removal(k) \/ Addition(k)

\* An addition or a removal was dispatched after the watch reset the flag.
StructuralDispatched ==
  \E k \in (watch_from + 1)..handled : Structural(k)

\* C2: the watch returns only if an output addition or removal was
\* dispatched after it cleared the flag; as long as only property updates
\* (properties followed by done) of already complete outputs were
\* dispatched, the flag stays unset and the watch has not returned.
C2_ReturnsOnlyOnStructuralChange ==
  (Watching \/ WatchReturned) =>
    /\ output_changed => StructuralDispatched
    /\ WatchReturned => StructuralDispatched

\* Witness of C2: during the watch a property update and its done were
\* dispatched for an output that was already complete, and the watch is
\* blocked again with the flag unset.
C2_Witness ==
  /\ pc = "watch_dispatch" /\ ~output_changed
  /\ \E k \in (watch_from + 2)..handled :
       /\ sent[k].k = "done" /\ ~Addition(k)
       /\ sent[k - 1].k = "scale" /\ sent[k - 1].o = sent[k].o

\* C10: the watch clears the flag before its first check, so what was
\* dispatched before the call never makes it return: it returns only from
\* the head of its loop, with the flag set by a dispatch pass made after
\* the reset, and whenever the head of the loop finds the flag set.
C10_ReturnsAfterAPass ==
  [][ /\ (cmd = "watch-for-output-changes" /\ pc # "exit" /\ pc' = "exit") =>
          (pc = "watch_loop" /\ output_changed /\ handled > watch_from)
      /\ (pc = "watch_loop" /\ handled = watch_from) => ~output_changed
      /\ (pc = "watch_loop" /\ output_changed) => pc' = "exit" ]_vars

\* Witness of C10: an output was added during the bootstrap roundtrip, and
\* the watch is blocked in its first dispatch pass with the flag cleared.
C10_Witness ==
  /\ pc = "watch_dispatch" /\ handled = watch_from /\ ~output_changed
  /\ \E k \in 1..watch_from : Addition(k)

\* ------------------------------------------------------------------- C3
\* The watch loop is the only flow of control of the process: it checks the
\* flag when it is at the head of the loop, and a blocked dispatch pass
\* runs once the transport has delivered a frame.
LiveSpec == Spec /\ WF_vars(WatchCheck) /\ WF_vars(WatchDispatch)

\* The compositor has delivered an addition or a removal since the watch
\* reset the flag.
StructuralDelivered ==
  \E k \in (watch_from + 1)..Len(sent) : Structural(k)

\* C3: once the compositor has delivered, during the watch, a global_remove
\* of a bound output or the done completing a new output, the watch
\* eventually returns.
C3_WatchEventuallyReturns ==
  (Watching /\ StructuralDelivered) ~> WatchReturned

\* Witness of C3: the watch has returned after an output announced during
\* the watch was bound and completed.
C3_Witness ==
  /\ WatchReturned
  /\ \E k \in (watch_from + 1)..handled :
       /\ sent[k].k = "global" /\ sent[k].i = "wl_output"
       /\ \E h \in (k + 1)..handled :
            sent[h].k = "done" /\ sent[h].o = sent[k].o

\* ------------------------------------------------------------------- C4
\* Index of the done before the last done (0 if there are fewer than two).
PrevDone(fs) == LastDone(SubSeq(fs, 1, LastDone(fs) - 1))

\* The property events of the last completed generation: those between the
\* last two dones.
LastBatch(fs) == SubSeq(fs, PrevDone(fs) + 1, LastDone(fs) - 1)

\* The record completed by the done before the last one.
PrevCommitted(n) ==
  written(OutputInfo_new(n), SubSeq(own(n), 1, PrevDone(own(n))))

TwoGenerations(n) == PrevDone(own(n)) > 0

alone(n, version) ==
  dispatch([client_new(<< >>) EXCEPT
              !.output_state = << setup(n, version) >>],
           own(n)).output_state[1]

\* C5: whatever the interleaving with the frames of other outputs and of
\* the registry, an output's accumulated state and record are those
\* obtained by dispatching its own frames alone.
C5_PerOutputIsolation ==
  \A o \in 1..Len(output_state) :
    output_state[o] = alone(output_state[o].name, output_state[o].version)

\* Witness of C5: two outputs are bound and an event of one was dispatched
\* between two events of the other.
C5_Witness ==
  /\ Len(output_state) = 2
  /\ \E k1, k2, k3 \in 1..handled :
       /\ k1 < k2 /\ k2 < k3
       /\ sent[k1].k \in OutputKinds /\ sent[k1].o = output_state[1].name
       /\ sent[k2].k \in OutputKinds /\ sent[k2].o = output_state[2].name
       /\ sent[k3].k \in OutputKinds /\ sent[k3].o = output_state[1].name

\* ------------------------------------------------------------------- C6
\* The version the compositor advertised for the global named n.
AdvertisedOf(n) ==
  IF \E j \in 1..Len(globals) : globals[j].name = n
  THEN globals[position(globals, n)].version
  ELSE LET k == CHOOSE k \in 1..Len(sent) :
                  sent[k].k = "global" /\ sent[k].o = n
       IN sent[k].v

\* C6: an output is bound at min(requested, advertised); a requested
\* ceiling above the advertised version is no error, the object is bound at
\* the advertised version and the session goes on.
C6_VersionClamped ==
  /\ \A o \in 1..Len(output_state) :
       LET adv == AdvertisedOf(output_state[o].name)
       IN /\ output_state[o].version <= adv
          /\ output_state[o].version <= MaxRequestedVersion
          /\ output_state[o].version \in {adv, MaxRequestedVersion}
  /\ endpoint => pc # "panicked"

\* Witness of C6: an output advertised at version 3 was bound, at version
\* 3, with a requested ceiling of 4, and the client went on to list it.
C6_Witness ==
  /\ Listed /\ Len(listing[1]) = 1
  /\ \E o \in 1..Len(output_state) :
       /\ AdvertisedOf(output_state[o].name) = 3
       /\ AdvertisedOf(output_state[o].name) < MaxRequestedVersion
       /\ output_state[o].version = 3

DispatchedKinds ==
  LET fs == SelectSeq(dispatched_frames, LAMBDA f : f.k # "sync_done")
  IN [j \in 1..Len(fs) |-> fs[j].k]

\* The registry announced exactly one output global, it was bound, and the
\* compositor sent geometry, mode and name (in some order) and then done.
EndToEnd ==
  /\ Listed
  /\ Len(globals) = 1 /\ globals[1].interface = "wl_output"
  /\ Len(DispatchedKinds) = 4
  /\ {DispatchedKinds[j] : j \in 1..3} = {"geometry", "mode", "name"}
  /\ DispatchedKinds[4] = "done"
  /\ Len(sent) = handled

\* The textual summary of the mode sent with argument index v.
ExpectedMode(v) ==
  IF v = 1 THEN << "(current) ", "(preferred) ", 1920, 1080, 60, 0 >>
  ELSE << "(current) ", "", 1280, 720, 59, 940 >>

\* C8: after one output global, its bind, geometry, mode, name and done,
\* list_outputs() returns exactly one record, with the values sent in the
\* three frames and the default in every other field.
C8_EndToEnd ==
  EndToEnd =>
    LET m == CHOOSE j \in 1..handled : sent[j].k = "mode"
    IN listing[1] =
         << [ model |-> "Panel", make |-> "ACME", location |-> <<10, 20>>,
              physical_size |-> <<340, 190>>, subpixel |-> "Horizontal RGB",
              modes |-> << ExpectedMode(sent[m].v) >>,
              name |-> Some("eDP-1"), description |-> None,
              logical_position |-> None, logical_size |-> None ] >>

\* Witness of C8: the end-to-end stream was dispatched and listed.
C8_Witness == EndToEnd /\ Len(listing[1]) = 1

\* ------------------------------------------------------------------- C9
\* The names of the wl_output globals the client has bound and not seen
\* removed, in the order it bound them.
BoundNames ==
  LET initial == SelectSeq(globals, LAMBDA g : g.interface = "wl_output")
      announced == SelectSeq(dispatched_frames,
                     LAMBDA f : f.k = "global" /\ f.i = "wl_output")
      all == [j \in 1..Len(initial) |-> initial[j].name]
               \o [j \in 1..Len(announced) |-> announced[j].o]
  IN SelectSeq(all, LAMBDA n :
       ~\E k \in 1..handled : sent[k].k = "global_remove" /\ sent[k].o = n)

NoClientState ==
  /\ globals = << >> /\ registry_state = << >> /\ output_state = << >>
  /\ ~output_changed /\ ~synced
  /\ sent = << >> /\ handled = 0 /\ ~sync_sent /\ watch_from = 0

\* C11: when no compositor endpoint can be connected to, WaylandClient::new
\* fails and main ends on that error: no client state is created, the
\* connection is not tried again, and neither list_outputs() nor the watch
\* loop runs.
C11_ConnectionErrorIsFatal ==
  [][ ~endpoint =>
        /\ pc \in {"main", "panicked"}
        /\ pc' = "panicked"
        /\ NoClientState /\ NoClientState'
        /\ listing = << >> /\ listing' = << >> ]_vars

\* Witness of C11: the process has ended on the failed connection, for
\* either subcommand, with a compositor that has an output to offer.
C11_Witness ==
  /\ ~endpoint /\ pc = "panicked"
  /\ \E j \in 1..Len(srv_globals) : srv_globals[j].interface = "wl_output"

\* ------------------------------------------------------------------ C12
\* The only wl_output events dispatched for n are done events.
OnlyDone(n) ==
  /\ own(n) # << >>
  /\ \A j \in 1..Len(own(n)) : own(n)[j].k = "done"

\* The DisplayOutput of an output the compositor described with nothing.
DefaultRecord ==
  [ model |-> "", make |-> "", location |-> <<0, 0>>,
    physical_size |-> <<0, 0>>, subpixel |-> "Unknown", modes |-> << >>,
    name |-> None, description |-> None,
    logical_position |-> None, logical_size |-> None ]

\* C12: a done received before any property is legal: the output becomes
\* Complete with a record of defaults (empty strings, zeroed geometry,
\* absent optional fields, no modes), the session goes on, and
\* list_outputs() includes that record.
C12_DoneFirstListedWithDefaults ==
  \A o \in 1..Len(output_state) :
    OnlyDone(output_state[o].name) =>
      /\ Complete(output_state[o])
      /\ info(output_state[o]) # None
      /\ DisplayOutput_new(info(output_state[o])[1]) = DefaultRecord
      /\ pc # "panicked"
      /\ Listed =>
           \E j \in 1..Len(listing[1]) : listing[1][j] = DefaultRecord

\* Witness of C12: an output that received nothing but a done was listed,
\* next to an output that was described.
C12_Witness ==
  /\ Listed /\ Len(listing[1]) = 2
  /\ \E o \in 1..Len(output_state) : OnlyDone(output_state[o].name)
  /\ \E j \in 1..2 : listing[1][j] # DefaultRecord

\* ------------------------------------------------------------------ C13
\* The number of frames dispatched when output_changed was last cleared:
\* by the constructor, or by the entry of watch_for_output_changes.
FlagEpoch ==
  IF cmd = "watch-for-output-changes"
       /\ pc \in {"watch_loop", "watch_dispatch", "exit"}
  THEN watch_from
  ELSE 0

\* C13: once the global_remove of a bound output has been dispatched, the
\* client holds no entry for that output, Pending or Complete,
\* list_outputs() does not return it, and output_changed is set (until the
\* next watch clears it).
C13_RemovedOutputGone ==
  \A k \in 1..handled :
    Removal(k) =>
      /\ position(output_state, sent[k].o) = 0
      /\ position(registry_state, sent[k].o) = 0
      /\ k > FlagEpoch => output_changed
      /\ Listed =>
           /\ Len(listing[1]) <= Len(output_state)
           /\ listing[1] = list_outputs(output_state)

\* Witness of C13: an output that had been completed was removed, and the
\* listing made afterwards is empty.
C13_Witness ==
  /\ Listed /\ listing[1] = << >> /\ output_changed
  /\ \E k \in 1..handled : Removal(k) /\ HasDone(sent[k].o)

\* ------------------------------------------------------------------ C14
\* A global_remove whose registry name has no output bound to it: the name
\* of a global of another interface, or a name the client never bound.
UnboundRemoval(f) ==
  f.k = "global_remove" /\ position(output_state, f.o) = 0

\* C14: a global_remove for a name with no bound output is a no-op.  A
\* dispatch pass over nothing but such frames leaves the outputs, their
\* records and output_changed as they were and does not end the session,
\* so a blocked watch stays blocked; and in every state the handler leaves
\* them unchanged for every name without a bound output, the names never
\* announced included.
C14_UnboundRemovalNoOp ==
  [][ /\ (/\ queue # << >>
          /\ \A j \in 1..Len(queue) : UnboundRemoval(queue[j]))
        => /\ output_state' = output_state
           /\ output_changed' = output_changed
           /\ pc' \notin {"exit", "panicked"}
      /\ \A n \in 1..(MaxName + 1) :
           position(output_state, n) = 0 =>
             LET t == handle(client, Frame("global_remove", n, 0, ""))
             IN /\ t.output_state = output_state
                /\ t.output_changed = output_changed
                /\ t.error = None ]_vars

\* Witness of C14: during the watch the removal of a global that is no
\* output was dispatched while an output was bound, and the watch is
\* blocked again with the flag unset.
C14_Witness ==
  /\ pc = "watch_dispatch" /\ ~output_changed
  /\ Len(output_state) >= 1
  /\ \E k \in (watch_from + 1)..handled :
       sent[k].k = "global_remove" /\ ~IsOutputName(sent[k].o, k)

\* ------------------------------------------------------------------ C15
\* WaylandClient::new has returned Ok.
Returned == pc \in {"ready", "exit", "watch_loop", "watch_dispatch"}

\* Position in sent of the compositor's answer to the roundtrip's sync.
SyncAt == CHOOSE k \in 1..Len(sent) : sent[k].k = "sync_done"

\* The wl_output events the compositor queued for n before that answer.
BeforeSync(n) ==
  SelectSeq(SubSeq(sent, 1, SyncAt - 1),
            LAMBDA f : f.k \in OutputKinds /\ f.o = n)

\* The compositor answered the bind of n with properties and a done.
DescribedAtBind(n) ==
  BeforeSync(n) # << >> /\ BeforeSync(n)[Len(BeforeSync(n))].k = "done"

RemovedName(n) ==
  \E k \in 1..handled : sent[k].k = "global_remove" /\ sent[k].o = n

\* C15: when WaylandClient::new has returned, the sync answer and every
\* frame queued before it have been dispatched and every output global
\* announced before the bootstrap (and not removed since) is bound; an
\* output the compositor described, done included, before the sync answer
\* has an info, is Complete if nothing more was sent for it, and is in the
\* result of the list_outputs() that follows.
C15_BootstrapRoundtrip ==
  Returned =>
    /\ synced
    /\ \E k \in 1..handled : sent[k].k = "sync_done"
    /\ \A j \in 1..Len(globals) :
         LET n == globals[j].name
             o == position(output_state, n)
         IN (globals[j].interface = "wl_output" /\ ~RemovedName(n)) =>
              /\ o # 0
              /\ DescribedAtBind(n) =>
                   /\ info(output_state[o]) # None
                   /\ own(n) = BeforeSync(n) =>
                        /\ Complete(output_state[o])
                        /\ info(output_state[o]) =
                             Some(written(OutputInfo_new(n), BeforeSync(n)))
                   /\ Listed =>
                        \E h \in 1..Len(listing[1]) :
                          listing[1][h] = DisplayOutput_new(committed(n))

\* Witness of C15: an output announced before the bootstrap was described
\* with geometry and done before the sync answer, and the listing made
\* right after the bootstrap holds its record.
C15_Witness ==
  /\ Listed /\ Len(listing[1]) = 1 /\ listing[1][1].model = "Panel"
  /\ \E j \in 1..Len(globals) :
       /\ DescribedAtBind(globals[j].name)
       /\ own(globals[j].name) = BeforeSync(globals[j].name)

\* ------------------------------------------------------------------ C16
\* C16: frames are handled in arrival order, each on the state its
\* predecessors left, in the roundtrip and in blocking_dispatch alike: an
\* output's accumulating record is what its events write in the order the
\* compositor sent them, its info is what had been written when its last
\* done arrived -- a done never overtakes a property sent ahead of it --
\* and it is Complete exactly when the last event sent for it is a done.
C16_ArrivalOrder ==
  /\ handled <= Len(sent)
  /\ \A o \in 1..Len(output_state) :
       LET e == output_state[o]
           n == e.name
       IN /\ e.pending_info = written(OutputInfo_new(n), own(n))
          /\ e.current_info =
               IF HasDone(n) THEN Some(committed(n)) ELSE None
          /\ Complete(e) <=>
               (own(n) # << >> /\ own(n)[Len(own(n))].k = "done")

\* Witness of C16: a name and the done sent right behind it were
\* dispatched, and the output's info carries the name.
C16_Witness ==
  \E o \in 1..Len(output_state) :
    /\ output_state[o].current_info # None
    /\ output_state[o].current_info[1].name = Some("eDP-1")
    /\ \E k \in 2..handled :
         /\ sent[k].k = "done" /\ sent[k].o = output_state[o].name
         /\ sent[k - 1].k = "name" /\ sent[k - 1].o = sent[k].o
         /\ \A h \in 1..(k - 2) : sent[h].k # "name"

\* ------------------------------------------------------------------ C17
\* Positions in sent of the frames that address an unknown object id.
InvalidFrames == {k \in 1..Len(sent) : sent[k].k = "invalid"}

\* C17: a frame that addresses an unknown object id is a fatal protocol
\* error.  The dispatch pass that meets it fails and ends the process;
\* neither that frame nor any frame behind it is ever dispatched; the
\* client's outputs and globals are what the frames dispatched before it
\* made them, so the offending frame changed no entry; and the process
\* ends this way for no other reason.
C17_ProtocolErrorIsFatal ==
  /\ \A k \in InvalidFrames : handled < k
  /\ InvalidFrames # {} => pc \in {"roundtrip", "watch_dispatch", "panicked"}
  /\ (endpoint /\ pc = "panicked") => InvalidFrames # {}
  /\ output_state =
       dispatch(client_new(globals), dispatched_frames).output_state
  /\ registry_state =
       dispatch(client_new(globals), dispatched_frames).registry_state

\* Witness of C17: the process has ended on a frame for an unknown object
\* id with an output bound and a later frame received and not dispatched.
C17_Witness ==
  /\ endpoint /\ pc = "panicked"
  /\ Len(output_state) >= 1
  /\ \E k \in InvalidFrames : k < Len(sent)

\* ------------------------------------------------------------------ C18
\* The registry names of the client's output entries, in order.
EntryNames == [j \in 1..Len(output_state) |-> output_state[j].name]

\* The registry names the client has seen announced, with the bootstrap's
\* global list or by a dispatched global event.
AnnouncedNames ==
  {globals[j].name : j \in 1..Len(globals)}
    \cup {sent[k].o : k \in {h \in 1..handled : sent[h].k = "global"}}

FirstStructural ==
  CHOOSE k \in (watch_from + 1)..handled :
    /\ Structural(k)
    /\ \A h \in (watch_from + 1)..(k - 1) : ~Structural(h)

\* C19: during a watch the handlers only ever set output_changed.  Once an
\* addition or a removal has been dispatched the flag is set and stays set
\* through the frames dispatched behind it in the same pass, property
\* updates included; the watch never blocks in another dispatch with the
\* flag set, so every frame dispatched behind the addition or removal
\* belongs to its pass, and the watch returns with the flag set.
C19_FlagOnlySet ==
  (Watching \/ WatchReturned) =>
    /\ StructuralDispatched => output_changed
    /\ pc = "watch_dispatch" => ~output_changed
    /\ WatchReturned =>
         /\ output_changed
         /\ handled - FirstStructural < MaxQueue

\* Witness of C19: the watch has returned after a pass in which an
\* addition or removal was followed by the done of a property update.
C19_Witness ==
  /\ WatchReturned /\ output_changed
  /\ handled > watch_from + 1
  /\ Structural(handled - 1)
  /\ sent[handled].k = "done" /\ ~Structural(handled)

\* ------------------------------------------------------------------ C20
\* main is the only flow of control: once WaylandClient::new has returned
\* it goes on to list_outputs().  Nothing is assumed of the compositor.
ListSpec == Spec /\ WF_vars(ListOutputs)

\* C20: the list-outputs command dispatches nothing after the bootstrap.
\* From the return of WaylandClient::new on, it only reads the outputs: it
\* takes no frame from the connection and changes neither the outputs nor
\* output_changed, its result is the list of the outputs as the bootstrap
\* left them, and it ends although the compositor sends nothing more.
C20_ListingNeedsNoDispatch ==
  /\ [][ (cmd = "list-outputs" /\ pc \in {"ready", "exit"}) =>
           /\ pc = "ready" /\ pc' = "exit"
           /\ listing' = << list_outputs(output_state) >>
           /\ UNCHANGED << sent, handled, registry_state, output_state,
                           output_changed, synced >> ]_vars
  /\ (cmd = "list-outputs" /\ pc = "ready") ~>
       (pc = "exit" /\ Len(listing) = 1)

\* Witness of C20: the listing was made and the process has ended with the
\* flag an output set during the bootstrap still set, and with an output
\* that a further frame would have completed left out of the result.
C20_Witness ==
  /\ Listed /\ output_changed
  /\ handled = Len(sent)
  /\ Len(output_state) = 2 /\ Len(listing[1]) = 1

====
